---- MODULE Spec2Model ----
(***************************************************************************)
(* The conversational generation session engine of web_chat.py: the        *)
(* process-wide conversation history and seed, the /generate handler with  *)
(* its reminder and compaction steps, the token streaming loop             *)
(* generate_stream with its stop heuristics and clean-up, the delete       *)
(* handlers, the preference store and the background model loader.         *)
(*                                                                         *)
(* Text is modelled as a sequence of one-character strings, so that        *)
(* substring tests, strip(), split(), replace() and endswith() are         *)
(* computed the way Python computes them.                                  *)
(***************************************************************************)
EXTENDS Integers, Sequences, FiniteSets, TLC

VARIABLES
    loader_pc,             \* position of the load_model thread
    model,                 \* the globals model/tokenizer: "None" or "set"
    model_loaded,          \* the readiness flag
    current_seed,          \* the session seed
    conversation_history,  \* the ordered Turns
    lastUserPrompt,        \* derived value recomputed by the delete handlers
    prefs_store,           \* slider_preferences.json
    response,              \* the HTTP response of the last finished handler
    spc,                   \* position of the generate_stream generator
    s_max_tokens,          \* max_tokens captured by the generate_stream closure
    full_response,         \* accumulated response text
    token_count,           \* running token counter
    last_50_tokens,        \* short window
    recent_tokens,         \* long window (repetition_window)
    frames,                \* frames sent to the client, in order
    eng,                   \* which token stream the Inference Engine produces
    produced,              \* the texts the engine stream has yielded so far
    stop_reason,           \* why the streaming loop ended
    rng_seed,              \* the value last given to mx.random.seed
    summ_calls,            \* number of summarization inference calls issued
    compactions,           \* number of compactions performed
    n_requests,            \* /generate requests that passed the readiness check
    n_appends,             \* Turns appended so far
    n_deletes,             \* Turns removed by pop() so far
    next_id,               \* append ordinal given to the next Turn
    client,                \* the connection the stream is written to
    overlap,               \* a second /generate request between its slices and its rebinding
    tokenizer,             \* the tokenizer global: None, or what kind of tokenizer was loaded
    prompt,                \* the prompt assembled by the last /generate and captured by its stream
    active_memory,         \* mx.get_active_memory(), in GB
    cleared_by             \* which call site cleared the engine cache in the last step

sessionVars == <<current_seed, conversation_history, lastUserPrompt>>

loaderVars == <<loader_pc, model, model_loaded>>

streamVars == <<spc, s_max_tokens, full_response, token_count, last_50_tokens, recent_tokens, frames, eng, produced, stop_reason, rng_seed>>

countVars == <<summ_calls, compactions, n_requests, n_appends, n_deletes, next_id>>

vars == <<loaderVars, sessionVars, prefs_store, response, client, cleared_by, active_memory, prompt, tokenizer, overlap, streamVars, countVars>>

-----------------------------------------------------------------------------
(* Bounds of the model. *)

\* /generate requests explored per behaviour
MaxRequests == 2

\* Turns the delete handlers may remove per behaviour
MaxDeletes == 2

\* tokens the freely choosing engine stream may yield
MaxFree == 4

\* the seed is drawn from 1..SeedRange (random.randint(1, 1000000) in the code)
SeedRange == 2

-----------------------------------------------------------------------------
(* Program constants. *)

COMPACT_THRESHOLD == 100

KEEP_RECENT == 50

REMINDER_EVERY == 10

SHORT_WINDOW == 50

repetition_window == 100

REPETITION_AFTER == 50

REPETITION_EVERY == 25

REPETITION_TAIL == 40

REPETITION_MIN_WORDS == 15

wrap_up_threshold == 768

WRAP_UP_TAIL == 10

DEFAULT_MAX_TOKENS == 1024

DEFAULT_TOP_K == 50

-----------------------------------------------------------------------------
(* String literals of the code. *)

stop_patterns ==
    {
      <<"U", "s", "e", "r", ":">>, <<"\n", "U", "s", "e", "r">>, <<"A", "s", "s", "i", "s", "t", "a", "n", "t", ":">>,
      <<"\n", "A", "s", "s", "i", "s", "t", "a", "n", "t">>, <<"\n", "A", ":">>, <<"A", ":">>,
      <<"\n", "Q", ":">>, <<"Q", ":">>, <<"\n", "\n", "-", "-", "-">>,
      <<"H", "u", "m", "a", "n", ":">>, <<"\n", "H", "u", "m", "a", "n">>
    }

chat_template_tokens ==
    {
      <<"<", "|", "e", "o", "t", "_", "i", "d", "|", ">">>, <<"<", "|", "s", "t", "a", "r", "t", "_", "h", "e", "a", "d", "e", "r", "_", "i", "d", "|", ">">>,
      <<"<", "|", "e", "n", "d", "_", "h", "e", "a", "d", "e", "r", "_", "i", "d", "|", ">">>, <<"<", "|", "i", "m", "_", "s", "t", "a", "r", "t", "|", ">">>,
      <<"<", "|", "i", "m", "_", "e", "n", "d", "|", ">">>, <<"<", "s", ">">>,
      <<"<", "/", "s", ">">>
    }

template_tokens ==
    <<
      <<"<", "|", "e", "o", "t", "_", "i", "d", "|", ">">>, <<"<", "|", "s", "t", "a", "r", "t", "_", "h", "e", "a", "d", "e", "r", "_", "i", "d", "|", ">">>,
      <<"<", "|", "e", "n", "d", "_", "h", "e", "a", "d", "e", "r", "_", "i", "d", "|", ">">>, <<"<", "|", "i", "m", "_", "s", "t", "a", "r", "t", "|", ">">>,
      <<"<", "|", "i", "m", "_", "e", "n", "d", "|", ">">>, <<"<", "s", ">">>,
      <<"<", "/", "s", ">">>, <<"<", "|", "a", "s", "s", "i", "s", "t", "a", "n", "t", "|", ">">>,
      <<"<", "|", "u", "s", "e", "r", "|", ">">>, <<"<", "|", "s", "y", "s", "t", "e", "m", "|", ">">>
    >>

role_patterns ==
    <<
      <<"A", "s", "s", "i", "s", "t", "a", "n", "t", ":">>, <<"U", "s", "e", "r", ":">>,
      <<"H", "u", "m", "a", "n", ":">>, <<"A", "I", ":">>
    >>

closing_phrases ==
    {
      <<"i", "n", " ", "c", "o", "n", "c", "l", "u", "s", "i", "o", "n">>,
      <<"f", "i", "n", "a", "l", "l", "y">>,
      <<"t", "o", " ", "s", "u", "m", "m", "a", "r", "i", "z", "e">>,
      <<"o", "v", "e", "r", "a", "l", "l">>,
      <<"i", "n", " ", "s", "u", "m", "m", "a", "r", "y">>
    }

sentence_end_tokens ==
    {
      <<".">>, <<"!">>, <<"?">>, <<"\n">>
    }

PLACEHOLDER_SUMMARY ==
    <<"P", "r", "e", "v", "i", "o", "u", "s", " ", "s", "t", "o", "r", "y", " ", "c", "o", "n", "t", "e", "x", "t", " ", "c", "o", "n", "t", "i", "n", "u", "e", "s", ".", ".", ".">>

STORY_CONTEXT_SEP ==
    <<"\n", "\n", "S", "t", "o", "r", "y", " ", "c", "o", "n", "t", "e", "x", "t", ":", " ">>

REMINDER_PREFIX ==
    <<"R", "E", "M", "I", "N", "D", "E", "R", ":", " ">>

-----------------------------------------------------------------------------
(* Python string operations on character sequences. *)

WHITESPACE == {" ", "\t", "\n", "\r", "\f"}

UPPER == <<"A", "B", "C", "D", "E", "F", "G", "H", "I", "J", "K", "L", "M", "N", "O", "P", "Q", "R", "S", "T", "U", "V", "W", "X", "Y", "Z">>

LOWER == <<"a", "b", "c", "d", "e", "f", "g", "h", "i", "j", "k", "l", "m", "n", "o", "p", "q", "r", "s", "t", "u", "v", "w", "x", "y", "z">>

\* pattern in s
Contains(s, p) ==
    \E i \in 1..(Len(s) - Len(p) + 1) : SubSeq(s, i, i + Len(p) - 1) = p

\* any(pattern in s for pattern in patterns)
ContainsAny(s, patterns) ==
    \E p \in patterns : Contains(s, p)

\* s.endswith(p)
EndsWith(s, p) ==
    /\ Len(s) >= Len(p)
    /\ SubSeq(s, Len(s) - Len(p) + 1, Len(s)) = p

\* s.lstrip(): from the first character that is not whitespace
LStrip(s) ==
    IF \A i \in 1..Len(s) : s[i] \in WHITESPACE THEN <<>>
    ELSE LET first == CHOOSE i \in 1..Len(s) : s[i] \notin WHITESPACE /\ \A j \in 1..(i - 1) : s[j] \in WHITESPACE
         IN  SubSeq(s, first, Len(s))

\* s.rstrip(): up to the last character that is not whitespace
RStrip(s) ==
    IF \A i \in 1..Len(s) : s[i] \in WHITESPACE THEN <<>>
    ELSE LET last == CHOOSE i \in 1..Len(s) : s[i] \notin WHITESPACE /\ \A j \in (i + 1)..Len(s) : s[j] \in WHITESPACE
         IN  SubSeq(s, 1, last)

\* s.strip()
Strip(s) ==
    RStrip(LStrip(s))

\* s.replace(p, ""): non-overlapping occurrences, left to right, one pass
RECURSIVE Remove(_, _)
Remove(s, p) ==
    IF ~Contains(s, p) THEN s
    ELSE LET first == CHOOSE i \in 1..(Len(s) - Len(p) + 1) :
                          /\ SubSeq(s, i, i + Len(p) - 1) = p
                          /\ \A j \in 1..(i - 1) : SubSeq(s, j, j + Len(p) - 1) # p
         IN  SubSeq(s, 1, first - 1) \o Remove(SubSeq(s, first + Len(p), Len(s)), p)

\* ''.join(tokens[lo..hi]), by halves
RECURSIVE JoinRange(_, _, _)
JoinRange(tokens, lo, hi) ==
    IF lo > hi THEN <<>>
    ELSE IF lo = hi THEN tokens[lo]
    ELSE LET mid == (lo + hi) \div 2
         IN  JoinRange(tokens, lo, mid) \o JoinRange(tokens, mid + 1, hi)

\* ''.join(tokens)
Join(tokens) ==
    JoinRange(tokens, 1, Len(tokens))

\* s.split(): the maximal runs of non-whitespace characters, in order
RECURSIVE SplitFrom(_, _)
SplitFrom(s, acc) ==
    LET rest == LStrip(s)
    IN  IF rest = <<>> THEN acc
        ELSE LET stop == IF \E i \in 1..Len(rest) : rest[i] \in WHITESPACE
                         THEN CHOOSE i \in 1..Len(rest) : rest[i] \in WHITESPACE /\ \A j \in 1..(i - 1) : rest[j] \notin WHITESPACE
                         ELSE Len(rest) + 1
             IN  SplitFrom(SubSeq(rest, stop, Len(rest)), Append(acc, SubSeq(rest, 1, stop - 1)))

Split(s) ==
    SplitFrom(s, <<>>)

LowerChar(c) ==
    IF \E i \in 1..Len(UPPER) : UPPER[i] = c
    THEN LOWER[CHOOSE i \in 1..Len(UPPER) : UPPER[i] = c]
    ELSE c

\* s.lower()
Lower(s) ==
    [i \in 1..Len(s) |-> LowerChar(s[i])]

\* seq[-n:]
LastN(seq, n) ==
    IF Len(seq) <= n THEN seq ELSE SubSeq(seq, Len(seq) - n + 1, Len(seq))

\* window.append(x); if len(window) > size: window.pop(0)
PushWindow(window, x, size) ==
    LET w == Append(window, x)
    IN  IF Len(w) > size THEN Tail(w) ELSE w

-----------------------------------------------------------------------------
(* Turns and frames. *)

\* a Turn {"role", "content"}; id is the append ordinal, kept to tell Turns apart
Turn(role, content, id) ==
    [role |-> role, content |-> content, id |-> id]

\* (mutant of TokenFrame) a token frame that does not carry the token's text
TokenFrameBlank(token) ==
    [type |-> "token", token |-> <<>>]

TokenFrame(token) ==
    [type |-> "token", token |-> token]

ErrorFrame ==
    [type |-> "error", token |-> <<>>]

DoneFrame ==
    [type |-> "done", token |-> <<>>]

\* load_system_prompt(): the text of system_prompt.txt (a stand-in for it)
SYSTEM_PROMPT ==
    <<"B", "e", " ", "b", "r", "i", "e", "f", ".">>

\* the text a successful summarization call returns, stripped (a stand-in)
ENGINE_SUMMARY ==
    <<"s", "t", "o", "r", "y", " ", "s", "o", " ", "f", "a", "r">>

\* the prompt text of a /generate request (a stand-in)
USER_INPUT ==
    <<"h", "i">>

\* lastUserPrompt before any delete handler assigned it
UNSET ==
    <<"<unset>">>

-----------------------------------------------------------------------------
(* The Inference Engine's token stream, as a set of synthetic streams. *)

TOK_A == <<"a">>

TOK_EMPTY == <<>>

TOK_SPACE == <<" ">>

TOK_US == <<"U", "s">>

TOK_ER_AI == <<"e", "r", ":", "A", "I", ":">>

TOK_USER_MARK == <<"U", "s", "e", "r", ":">>

TOK_USER_TAG == <<"<", "|", "u", "s", "e", "r", "|", ">">>

TOK_BOS == <<"<", "s", ">">>

TOK_AB == <<"a", "b", " ">>

TOK_CD == <<"c", "d", " ">>

TOK_FINALLY == <<" ", "f", "i", "n", "a", "l", "l", "y">>

TOK_DOT == <<".">>

\* the texts the freely choosing stream picks from
FreeTokens ==
    {TOK_US, TOK_ER_AI, TOK_USER_MARK, TOK_USER_TAG, TOK_SPACE, TOK_BOS}

TokenOut(text, finish_reason) ==
    [kind |-> "token", text |-> text, finish_reason |-> finish_reason]

RaiseOut ==
    [kind |-> "raise", text |-> <<>>, finish_reason |-> "None"]

EndOut ==
    [kind |-> "end", text |-> <<>>, finish_reason |-> "None"]

\* what the next pull from stream e can give after pos responses:
\* a response {text, finish_reason}, an exception, or the end of the stream
EngineOutcomes(e, pos) ==
    CASE e = "free" ->
            IF pos < MaxFree
            THEN {TokenOut(t, f) : t \in FreeTokens, f \in {"None", "stop"}} \cup {RaiseOut, EndOut}
            ELSE {RaiseOut, EndOut}
      [] e = "unbounded" -> {TokenOut(TOK_A, "None")}
      [] e = "stopping" -> IF pos = 0 THEN {TokenOut(TOK_A, "None")} ELSE {TokenOut(TOK_EMPTY, "stop")}
      [] e = "exhausted" -> IF pos = 0 THEN {TokenOut(TOK_A, "None")} ELSE {EndOut}
      [] e = "failing" -> IF pos = 0 THEN {TokenOut(TOK_A, "None")} ELSE {RaiseOut}
      [] e = "repeat2" -> {TokenOut(IF pos % 2 = 0 THEN TOK_AB ELSE TOK_CD, "None")}
      [] e = "wrapup" ->
            IF pos < wrap_up_threshold - 2 THEN {TokenOut(TOK_EMPTY, "None")}
            ELSE IF pos = wrap_up_threshold - 2 THEN {TokenOut(TOK_FINALLY, "None")}
            ELSE {TokenOut(TOK_DOT, "None")}
      [] e = "repwrap" ->
            \* empty texts, then a repeated word, a closing phrase and a full
            \* stop at token 775, a repetition check point past the wrap-up threshold
            IF pos < 735 THEN {TokenOut(TOK_EMPTY, "None")}
            ELSE IF pos < 773 THEN {TokenOut(TOK_AB, "None")}
            ELSE IF pos = 773 THEN {TokenOut(TOK_FINALLY, "None")}
            ELSE {TokenOut(TOK_DOT, "None")}

-----------------------------------------------------------------------------
(* generate_stream: the per-token checks and the clean-up. *)

\* any(pattern in test_response for pattern in stop_patterns)
PatternStop(test_response) ==
    ContainsAny(test_response, stop_patterns)

\* any(template_token in test_response for template_token in chat_template_tokens)
TemplateStop(test_response) ==
    ContainsAny(test_response, chat_template_tokens)

\* (mutant of RepetitionStop) the test made every 50 tokens
RepetitionStopEveryFifty(count, window) ==
    /\ count > REPETITION_AFTER
    /\ count % (2 * REPETITION_EVERY) = 0
    /\ LET words == Split(Join(LastN(window, REPETITION_TAIL)))
           unique_words == Cardinality({words[i] : i \in 1..Len(words)})
       IN  /\ Len(words) > REPETITION_MIN_WORDS
           /\ 4 * unique_words < Len(words)

\* the repetition test over the last 40 tokens of the short window
RepetitionStop(count, window) ==
    /\ count > REPETITION_AFTER
    /\ count % REPETITION_EVERY = 0
    /\ LET words == Split(Join(LastN(window, REPETITION_TAIL)))
           unique_words == Cardinality({words[i] : i \in 1..Len(words)})
       IN  /\ Len(words) > REPETITION_MIN_WORDS
           \* unique_words / len(words) < 0.25
           /\ 4 * unique_words < Len(words)

\* the wrap-up test at a sentence-ending token
WrapUpStop(count, token, window) ==
    /\ count >= wrap_up_threshold
    /\ token \in sentence_end_tokens
    /\ ContainsAny(Lower(Join(LastN(window, WRAP_UP_TAIL))), closing_phrases)

\* token_count >= max_tokens
LimitStop(count, max_tokens) ==
    count >= max_tokens

\* for token in template_tokens: cleaned_response = cleaned_response.replace(token, "")
RECURSIVE RemoveTemplateTokens(_, _)
RemoveTemplateTokens(s, i) ==
    IF i > Len(template_tokens) THEN s
    ELSE RemoveTemplateTokens(Remove(s, template_tokens[i]), i + 1)

\* for pattern in role_patterns: if endswith(pattern): cut it off and strip
RECURSIVE StripRolePatterns(_, _)
StripRolePatterns(s, i) ==
    IF i > Len(role_patterns) THEN s
    ELSE IF EndsWith(s, role_patterns[i])
         THEN StripRolePatterns(Strip(SubSeq(s, 1, Len(s) - Len(role_patterns[i]))), i + 1)
         ELSE StripRolePatterns(s, i + 1)

CleanResponse(text) ==
    StripRolePatterns(RemoveTemplateTokens(Strip(text), 1), 1)

\* (mutant of HasText) if full_response: the test without strip()
HasTextUnstripped(text) ==
    text # <<>>

\* if full_response.strip(): ... conversation_history.append(assistant Turn)
HasText(text) ==
    Strip(text) # <<>>

Finalized(history, text, id) ==
    IF HasText(text)
    THEN Append(history, Turn("assistant", CleanResponse(text), id))
    ELSE history

-----------------------------------------------------------------------------
(* The preference store. *)

PREF_KEYS == {"temperature", "top_p", "top_k", "repetition_penalty", "max_tokens"}

\* a JSON number as Python holds it: an int, or a float known by its repr
IntVal(n) ==
    [type |-> "int", int |-> n, repr |-> <<>>]

FloatVal(repr) ==
    [type |-> "float", int |-> 0, repr |-> repr]

\* the defaults load_slider_preferences returns when the file does not exist
DEFAULT_PREFS ==
    [temperature |-> FloatVal(<<"0", ".", "7">>), top_p |-> FloatVal(<<"0", ".", "9">>), top_k |-> IntVal(DEFAULT_TOP_K),
     repetition_penalty |-> FloatVal(<<"1", ".", "1">>), max_tokens |-> IntVal(DEFAULT_MAX_TOKENS)]

DIGITS ==
    <<"0", "1", "2", "3", "4", "5", "6", "7", "8", "9">>

\* str(n) of a non-negative int
RECURSIVE IntToDigits(_)
IntToDigits(n) ==
    IF n < 10 THEN <<DIGITS[n + 1]>> ELSE IntToDigits(n \div 10) \o <<DIGITS[(n % 10) + 1]>>

DigitValue(c) ==
    (CHOOSE i \in 1..10 : DIGITS[i] = c) - 1

\* int(s) of a digit string
RECURSIVE DigitsToInt(_)
DigitsToInt(s) ==
    IF s = <<>> THEN 0 ELSE 10 * DigitsToInt(SubSeq(s, 1, Len(s) - 1)) + DigitValue(s[Len(s)])

\* json.dump of one number: int.__repr__ or float.__repr__
JsonNumber(v) ==
    IF v.type = "int"
    THEN IF v.int < 0 THEN <<"-">> \o IntToDigits(0 - v.int) ELSE IntToDigits(v.int)
    ELSE v.repr

\* (mutant of ParseNumber) every number literal read as a float
ParseNumberAsFloat(s) ==
    FloatVal(s)

\* json.load of one number literal: a float when it has a fraction or an exponent
ParseNumber(s) ==
    IF \E i \in 1..Len(s) : s[i] \in {".", "e", "E"}
    THEN FloatVal(s)
    ELSE IF s[1] = "-" THEN IntVal(0 - DigitsToInt(Tail(s))) ELSE IntVal(DigitsToInt(s))

\* json.dump(preferences, f): the file's text, one number literal per key
JsonDump(items) ==
    [k \in DOMAIN items |-> JsonNumber(items[k])]

\* json.load(f)
JsonLoad(data) ==
    [k \in DOMAIN data |-> ParseNumber(data[k])]

NoFile ==
    [state |-> "absent", data |-> <<>>]

\* a file whose text json.load raises JSONDecodeError on (empty, truncated)
CorruptFile ==
    [state |-> "corrupt", data |-> <<>>]

\* a file open() raises an OSError other than FileNotFoundError on
UnreadableFile ==
    [state |-> "unreadable", data |-> <<>>]

\* request.get_json() results: kind is the Python type, items the dict's mapping
\* or the list's elements; "unparseable" is a body get_json() raises on
NonePayload ==
    [kind |-> "none", items |-> <<>>]

UnparseablePayload ==
    [kind |-> "unparseable", items |-> <<>>]

ListPayload(items) ==
    [kind |-> "list", items |-> items]

DictPayload(items) ==
    [kind |-> "dict", items |-> items]

\* Python truthiness of the parsed payload: None and empty containers are falsy
Truthy(payload) ==
    /\ payload.kind # "none"
    /\ payload.items # <<>>

\* load_slider_preferences(): [raised, prefs]
LoadSliderPreferences(store) ==
    CASE store.state = "absent" -> [raised |-> FALSE, prefs |-> DEFAULT_PREFS]
      [] store.state = "ok" -> [raised |-> FALSE, prefs |-> JsonLoad(store.data)]
      [] OTHER -> [raised |-> TRUE, prefs |-> <<>>]

\* the payloads save_preferences does not write: not preferences or not a dict
SaveRejects(payload) ==
    \/ ~Truthy(payload)
    \/ payload.kind # "dict"

Resp(handler, status, body) ==
    [handler |-> handler, status |-> status, body |-> body]

-----------------------------------------------------------------------------
(* /generate: the Turn update, the reminder and the compaction. *)

\* regenerate: pop a trailing assistant Turn; otherwise append the user Turn
AfterRequestTurn(history, regenerate, user_input, id) ==
    IF regenerate
    THEN IF history # <<>> /\ history[Len(history)].role = "assistant"
         THEN SubSeq(history, 1, Len(history) - 1)
         ELSE history
    ELSE Append(history, Turn("user", user_input, id))

\* (mutant of ReminderDue) without the test for an empty history
ReminderDueWhenEmpty(history) ==
    Len(history) % REMINDER_EVERY = 0

\* len(conversation_history) % 10 == 0 and len(conversation_history) > 0
ReminderDue(history) ==
    /\ Len(history) % REMINDER_EVERY = 0
    /\ Len(history) > 0

WithReminder(history, id) ==
    IF ReminderDue(history)
    THEN Append(history, Turn("system", REMINDER_PREFIX \o SYSTEM_PROMPT, id))
    ELSE history

\* (mutant of CompactionDue) the retained-window size taken for the threshold
CompactionDueAtWindow(history) ==
    Len(history) > KEEP_RECENT

\* (mutant of CompactionDue) the threshold taken one Turn higher
CompactionDueOneLater(history) ==
    Len(history) > COMPACT_THRESHOLD + 1

\* len(conversation_history) > 100
CompactionDue(history) ==
    Len(history) > COMPACT_THRESHOLD

\* (mutant of SummaryText) no fallback text when the call raised
SummaryTextNoFallback(call_ok) ==
    ENGINE_SUMMARY

\* summarize_context(): the stripped engine text, or the placeholder when the call raised
SummaryText(call_ok) ==
    IF call_ok THEN ENGINE_SUMMARY ELSE PLACEHOLDER_SUMMARY

\* (mutant of Compacted) the retained window is one Turn too long
CompactedKeepsOneMore(history, summary, id) ==
    <<Turn("system", SYSTEM_PROMPT \o STORY_CONTEXT_SEP \o summary, id)>> \o LastN(history, KEEP_RECENT + 1)

\* [summary Turn] + conversation_history[-50:]
Compacted(history, summary, id) ==
    <<Turn("system", SYSTEM_PROMPT \o STORY_CONTEXT_SEP \o summary, id)>> \o LastN(history, KEEP_RECENT)

\* the history as it stands at the compaction check
HistoryAtCheck(history, regenerate, user_input, id) ==
    LET h1 == AfterRequestTurn(history, regenerate, user_input, id)
        id1 == IF regenerate THEN id ELSE id + 1
    IN  WithReminder(h1, id1)

\* the kinds of tokenizer load() can return: with or without a chat template
Tokenizers ==
    {"chat_template", "no_chat_template"}

\* structured_guidance
STRUCTURED_GUIDANCE ==
    <<"\n", "\n", "R", "E", "S", "P", "O", "N", "S", "E", " ", "G", "U", "I", "D", "E", "L", "I", "N", "E",
      "S", ":", " ", "K", "e", "e", "p", " ", "r", "e", "s", "p", "o", "n", "s", "e", "s", " ", "f", "o",
      "c", "u", "s", "e", "d", " ", "a", "n", "d", " ", "c", "o", "n", "c", "i", "s", "e", ".", " ", "A",
      "i", "m", " ", "f", "o", "r", " ", "2", "-", "3", " ", "p", "a", "r", "a", "g", "r", "a", "p", "h",
      "s", " ", "m", "a", "x", "i", "m", "u", "m", ".", " ", "I", "n", "c", "l", "u", "d", "e", " ", "n",
      "a", "r", "r", "a", "t", "i", "v", "e", " ", "d", "e", "s", "c", "r", "i", "p", "t", "i", "o", "n",
      ",", " ", "c", "h", "a", "r", "a", "c", "t", "e", "r", " ", "d", "i", "a", "l", "o", "g", "u", "e",
      " ", "w", "h", "e", "n", " ", "a", "p", "p", "r", "o", "p", "r", "i", "a", "t", "e", ",", " ", "a",
      "n", "d", " ", "c", "l", "e", "a", "r", " ", "s", "c", "e", "n", "e", " ", "p", "r", "o", "g", "r",
      "e", "s", "s", "i", "o", "n", ".", " ", "A", "v", "o", "i", "d", " ", "r", "a", "m", "b", "l", "i",
      "n", "g", " ", "o", "r", " ", "r", "e", "p", "e", "t", "i", "t", "i", "v", "e", " ", "c", "o", "n",
      "t", "e", "n", "t", ".">>

\* the assistant cue that ends the fallback prompt
ASSISTANT_CUE ==
    <<"A", "s", "s", "i", "s", "t", "a", "n", "t", ":">>

\* no prompt assembled yet
NoPrompt ==
    [format |-> "none", messages |-> <<>>, text |-> <<>>]

\* the fallback loop over history[lo..hi], by halves: a line for each user
\* and each assistant Turn, nothing for any other role
RECURSIVE FallbackLines(_, _, _)
FallbackLines(history, lo, hi) ==
    IF lo > hi THEN <<>>
    ELSE IF lo = hi
         THEN CASE history[lo].role = "user" ->
                       <<"U", "s", "e", "r", ":", " ">> \o history[lo].content \o <<"\n">>
                [] history[lo].role = "assistant" ->
                       <<"A", "s", "s", "i", "s", "t", "a", "n", "t", ":", " ">> \o history[lo].content \o <<"\n">>
                [] OTHER -> <<>>
         ELSE LET mid == (lo + hi) \div 2
              IN  FallbackLines(history, lo, mid) \o FallbackLines(history, mid + 1, hi)

\* the except branch of the prompt assembly
FallbackPrompt(history) ==
    SYSTEM_PROMPT \o STRUCTURED_GUIDANCE \o <<"\n", "\n">> \o FallbackLines(history, 1, Len(history)) \o ASSISTANT_CUE

\* the messages handed to tokenizer.apply_chat_template
TemplateMessages(history) ==
    <<Turn("system", SYSTEM_PROMPT \o STRUCTURED_GUIDANCE, 0)>> \o history

\* the prompt assembly: apply_chat_template renders the messages, and when
\* it raises the prompt is built by the fallback loop
AssemblePrompt(tok, history) ==
    IF tok = "chat_template"
    THEN [format |-> "chat_template", messages |-> TemplateMessages(history), text |-> <<>>]
    ELSE [format |-> "fallback", messages |-> <<>>, text |-> FallbackPrompt(history)]

\* no second /generate request is inside its compaction
NoOverlap ==
    [pc |-> "idle", recent_messages |-> <<>>, messages_to_summarize |-> <<>>]

\* the connection of a request whose Response is being streamed: what the
\* engine had yielded and what had been sent when the client went away
Connected ==
    [state |-> "connected", pulled |-> 0, sent |-> 0]

ResetStream(max_tokens) ==
    /\ spc' = "created"
    /\ s_max_tokens' = max_tokens
    /\ full_response' = <<>>
    /\ token_count' = 0
    /\ last_50_tokens' = <<>>
    /\ recent_tokens' = <<>>
    /\ frames' = <<>>
    /\ eng' = "None"
    /\ produced' = <<>>
    /\ stop_reason' = "None"
    /\ UNCHANGED rng_seed

\* (mutant of NotReady) the readiness check left out
NotReadyUnchecked ==
    FALSE

\* the readiness check at the head of /generate
NotReady ==
    ~model_loaded

\* (mutant of Generate) the max_tokens override is written back to the store
GeneratePersistsOverride(user_input, given, max_tokens, regenerate, new_seed, call_ok) ==
    /\ spc \in {"none", "closed", "cancelled"}
    /\ LET loaded == LoadSliderPreferences(prefs_store)
       IN  IF NotReady
           THEN /\ response' = Resp("generate", 200, "Model not loaded yet")
                /\ cleared_by' = "None"
                /\ UNCHANGED <<client, active_memory, prompt, tokenizer, overlap, loaderVars, sessionVars, prefs_store, streamVars, countVars>>
           ELSE IF loaded.raised \/ ~(PREF_KEYS \subseteq DOMAIN loaded.prefs)
           THEN /\ response' = Resp("generate", 500, "Internal Server Error")
                /\ cleared_by' = "None"
                /\ UNCHANGED <<client, active_memory, prompt, tokenizer, overlap, loaderVars, sessionVars, prefs_store, streamVars, countVars>>
           ELSE LET h1 == AfterRequestTurn(conversation_history, regenerate, user_input, next_id)
                    popped == IF Len(h1) < Len(conversation_history) THEN 1 ELSE 0
                    h2 == HistoryAtCheck(conversation_history, regenerate, user_input, next_id)
                    appended2 == Len(h2) - Len(h1) + (IF regenerate THEN 0 ELSE 1)
                    due == CompactionDue(h2)
                    h3 == IF due THEN Compacted(h2, SummaryText(call_ok), next_id + appended2) ELSE h2
                IN  /\ n_requests < MaxRequests
                    /\ current_seed' = IF regenerate THEN new_seed ELSE current_seed
                    /\ conversation_history' = h3
                    /\ summ_calls' = summ_calls + (IF due THEN 1 ELSE 0)
                    /\ compactions' = compactions + (IF due THEN 1 ELSE 0)
                    /\ n_requests' = n_requests + 1
                    /\ n_appends' = n_appends + appended2
                    /\ n_deletes' = n_deletes + popped
                    /\ next_id' = next_id + appended2 + (IF due THEN 1 ELSE 0)
                    /\ ResetStream(IF given THEN max_tokens ELSE loaded.prefs.max_tokens.int)
                    /\ response' = Resp("generate", 200, "event-stream")
                    /\ prefs_store' = IF given
                                      THEN [state |-> "ok", data |-> JsonDump([loaded.prefs EXCEPT !.max_tokens = IntVal(max_tokens)])]
                                      ELSE prefs_store
                    /\ client' = Connected
                    /\ cleared_by' = "None"
                    /\ UNCHANGED active_memory
                    /\ prompt' = AssemblePrompt(tokenizer, h3)
                    /\ UNCHANGED tokenizer
                    /\ UNCHANGED overlap
                    /\ UNCHANGED <<loaderVars, lastUserPrompt>>

\* POST /generate up to the return of the streaming Response.
\* given/max_tokens: whether the body carries max_tokens, and its value;
\* new_seed: the value random.randint returns; call_ok: whether the
\* summarization call succeeds
Generate(user_input, given, max_tokens, regenerate, new_seed, call_ok) ==
    /\ spc \in {"none", "closed", "cancelled"}
    /\ LET loaded == LoadSliderPreferences(prefs_store)
       IN  IF NotReady
           THEN /\ response' = Resp("generate", 200, "Model not loaded yet")
                /\ cleared_by' = "None"
                /\ UNCHANGED <<client, active_memory, prompt, tokenizer, overlap, loaderVars, sessionVars, prefs_store, streamVars, countVars>>
           ELSE IF loaded.raised \/ ~(PREF_KEYS \subseteq DOMAIN loaded.prefs)
           THEN /\ response' = Resp("generate", 500, "Internal Server Error")
                /\ cleared_by' = "None"
                /\ UNCHANGED <<client, active_memory, prompt, tokenizer, overlap, loaderVars, sessionVars, prefs_store, streamVars, countVars>>
           ELSE LET h1 == AfterRequestTurn(conversation_history, regenerate, user_input, next_id)
                    popped == IF Len(h1) < Len(conversation_history) THEN 1 ELSE 0
                    h2 == HistoryAtCheck(conversation_history, regenerate, user_input, next_id)
                    appended2 == Len(h2) - Len(h1) + (IF regenerate THEN 0 ELSE 1)
                    due == CompactionDue(h2)
                    h3 == IF due THEN Compacted(h2, SummaryText(call_ok), next_id + appended2) ELSE h2
                IN  /\ n_requests < MaxRequests
                    /\ current_seed' = IF regenerate THEN new_seed ELSE current_seed
                    /\ conversation_history' = h3
                    /\ summ_calls' = summ_calls + (IF due THEN 1 ELSE 0)
                    /\ compactions' = compactions + (IF due THEN 1 ELSE 0)
                    /\ n_requests' = n_requests + 1
                    /\ n_appends' = n_appends + appended2
                    /\ n_deletes' = n_deletes + popped
                    /\ next_id' = next_id + appended2 + (IF due THEN 1 ELSE 0)
                    /\ ResetStream(IF given THEN max_tokens ELSE loaded.prefs.max_tokens.int)
                    /\ response' = Resp("generate", 200, "event-stream")
                    /\ client' = Connected
                    /\ cleared_by' = "None"
                    /\ UNCHANGED active_memory
                    /\ prompt' = AssemblePrompt(tokenizer, h3)
                    /\ UNCHANGED tokenizer
                    /\ UNCHANGED overlap
                    /\ UNCHANGED <<loaderVars, lastUserPrompt, prefs_store>>

-----------------------------------------------------------------------------
(* A second /generate request served by another thread of the server while a
   stream may be running.  Its compaction is followed in two steps, around the
   summarization call; the stream of its own Response is not followed. *)

\* lines 355-394 of a request whose history is due for compaction: the Turn
\* update, the reminder, and the two slices taken before summarize_context
GenerateSlice(user_input, regenerate, new_seed) ==
    /\ overlap.pc = "idle"
    /\ ~NotReady
    /\ ~LoadSliderPreferences(prefs_store).raised
    /\ PREF_KEYS \subseteq DOMAIN LoadSliderPreferences(prefs_store).prefs
    /\ n_requests < MaxRequests
    /\ LET h1 == AfterRequestTurn(conversation_history, regenerate, user_input, next_id)
           popped == IF Len(h1) < Len(conversation_history) THEN 1 ELSE 0
           h2 == HistoryAtCheck(conversation_history, regenerate, user_input, next_id)
           appended2 == Len(h2) - Len(h1) + (IF regenerate THEN 0 ELSE 1)
       IN  /\ CompactionDue(h2)
           /\ current_seed' = IF regenerate THEN new_seed ELSE current_seed
           /\ conversation_history' = h2
           /\ overlap' = [pc |-> "sliced",
                          recent_messages |-> LastN(h2, KEEP_RECENT),
                          messages_to_summarize |-> SubSeq(h2, 1, Len(h2) - KEEP_RECENT)]
           /\ n_requests' = n_requests + 1
           /\ n_appends' = n_appends + appended2
           /\ n_deletes' = n_deletes + popped
           /\ next_id' = next_id + appended2
    /\ cleared_by' = "None"
    /\ UNCHANGED <<client, active_memory, prompt, tokenizer, loaderVars, lastUserPrompt, prefs_store, response, streamVars, summ_calls, compactions>>

\* summarize_context has returned: lines 401-404 rebind the history to the
\* summary Turn and the slice taken before the call
GenerateRebind(call_ok) ==
    /\ overlap.pc = "sliced"
    /\ conversation_history' =
          <<Turn("system", SYSTEM_PROMPT \o STORY_CONTEXT_SEP \o SummaryText(call_ok), next_id)>> \o overlap.recent_messages
    /\ overlap' = NoOverlap
    /\ summ_calls' = summ_calls + 1
    /\ compactions' = compactions + 1
    /\ next_id' = next_id + 1
    /\ cleared_by' = "None"
    /\ UNCHANGED <<client, active_memory, prompt, tokenizer, loaderVars, current_seed, lastUserPrompt, prefs_store, response, streamVars, n_requests, n_appends, n_deletes>>

-----------------------------------------------------------------------------
(* generate_stream, from one yield to the next. *)

\* if mx.get_active_memory() > 8 * 1024**3
StartClearDue(memory) ==
    memory > 8

\* (mutant of LoopClearDue) the memory test made on every token
LoopClearDueEveryToken(count, memory) ==
    memory > 10

\* if token_count % 50 == 0: if current_memory > 10
LoopClearDue(count, memory) ==
    /\ count % 50 = 0
    /\ memory > 10

\* (mutant of StreamBegin) the random generator left as the last call seeded it
StreamBeginUnseeded(engines) ==
    /\ spc = "created"
    /\ spc' = "streaming"
    /\ eng' \in engines
    /\ UNCHANGED <<s_max_tokens, full_response, token_count, last_50_tokens, recent_tokens, frames, produced, stop_reason, rng_seed>>
    /\ cleared_by' = IF StartClearDue(active_memory) THEN "start" ELSE "None"
    /\ UNCHANGED <<client, active_memory, prompt, tokenizer, overlap, loaderVars, sessionVars, prefs_store, response, countVars>>

\* the first resumption: the locals are initialised and the generator seeded
StreamBegin(engines) ==
    /\ spc = "created"
    /\ spc' = "streaming"
    /\ rng_seed' = current_seed
    /\ eng' \in engines
    /\ UNCHANGED <<s_max_tokens, full_response, token_count, last_50_tokens, recent_tokens, frames, produced, stop_reason>>
    /\ cleared_by' = IF StartClearDue(active_memory) THEN "start" ELSE "None"
    /\ UNCHANGED <<client, active_memory, prompt, tokenizer, overlap, loaderVars, sessionVars, prefs_store, response, countVars>>

\* the loop was left: clean up, persist the assistant Turn, yield the done frame
FinishStream(text, reason) ==
    /\ conversation_history' = Finalized(conversation_history, text, next_id)
    /\ n_appends' = n_appends + (IF HasText(text) THEN 1 ELSE 0)
    /\ next_id' = next_id + (IF HasText(text) THEN 1 ELSE 0)
    /\ frames' = Append(frames, DoneFrame)
    /\ stop_reason' = reason
    /\ spc' = "closed"

\* (mutant of StopAt) the hard limit tested ahead of the repetition and wrap-up checks
StopAtLimitFirst(test_response, token, count, window, max_tokens) ==
    IF PatternStop(test_response) THEN "pattern"
    ELSE IF TemplateStop(test_response) THEN "template"
    ELSE IF LimitStop(count, max_tokens) THEN "limit"
    ELSE IF RepetitionStop(count, window) THEN "repetition"
    ELSE IF WrapUpStop(count, token, window) THEN "wrapup"
    ELSE "None"

\* which check of the loop body stops at this token ("None": the token is yielded)
StopAt(test_response, token, count, window, max_tokens) ==
    IF PatternStop(test_response) THEN "pattern"
    ELSE IF TemplateStop(test_response) THEN "template"
    ELSE IF RepetitionStop(count, window) THEN "repetition"
    ELSE IF WrapUpStop(count, token, window) THEN "wrapup"
    ELSE IF LimitStop(count, max_tokens) THEN "limit"
    ELSE "None"

\* one iteration of the for loop on a response the engine yields
StreamToken ==
    /\ spc = "streaming"
    /\ \E o \in EngineOutcomes(eng, Len(produced)) :
        /\ o.kind = "token"
        /\ LET token == o.text
               test_response == full_response \o token
               count == token_count + 1
               window == PushWindow(last_50_tokens, token, SHORT_WINDOW)
               reason == StopAt(test_response, token, count, window, s_max_tokens)
               rejected == reason \in {"pattern", "template"}
               text == IF rejected THEN full_response ELSE test_response
           IN  /\ produced' = Append(produced, token)
               /\ full_response' = text
               /\ token_count' = IF rejected THEN token_count ELSE count
               /\ last_50_tokens' = IF rejected THEN last_50_tokens ELSE window
               /\ recent_tokens' = IF rejected THEN recent_tokens ELSE PushWindow(recent_tokens, token, repetition_window)
               /\ cleared_by' = IF ~rejected /\ reason # "repetition" /\ LoopClearDue(count, active_memory)
                                THEN "loop" ELSE "None"
               /\ IF reason # "None"
                  THEN FinishStream(text, reason)
                  ELSE /\ frames' = Append(frames, TokenFrame(token))
                       /\ spc' = IF o.finish_reason = "stop" THEN "finishing" ELSE "streaming"
                       /\ UNCHANGED <<conversation_history, n_appends, next_id, stop_reason>>
    /\ UNCHANGED <<s_max_tokens, eng, rng_seed>>
    /\ UNCHANGED <<client, active_memory, prompt, tokenizer, overlap, loaderVars, current_seed, lastUserPrompt, prefs_store, response, summ_calls, compactions, n_requests, n_deletes>>

\* resumed after yielding a token whose finish_reason was "stop": break
StreamFinish ==
    /\ spc = "finishing"
    /\ FinishStream(full_response, "finish")
    /\ UNCHANGED <<s_max_tokens, full_response, token_count, last_50_tokens, recent_tokens, eng, produced, rng_seed>>
    /\ cleared_by' = "None"
    /\ UNCHANGED <<client, active_memory, prompt, tokenizer, overlap, loaderVars, current_seed, lastUserPrompt, prefs_store, response, summ_calls, compactions, n_requests, n_deletes>>

\* the engine stream ends: the for loop completes
StreamExhausted ==
    /\ spc = "streaming"
    /\ EndOut \in EngineOutcomes(eng, Len(produced))
    /\ FinishStream(full_response, "exhausted")
    /\ UNCHANGED <<s_max_tokens, full_response, token_count, last_50_tokens, recent_tokens, eng, produced, rng_seed>>
    /\ cleared_by' = "None"
    /\ UNCHANGED <<client, active_memory, prompt, tokenizer, overlap, loaderVars, current_seed, lastUserPrompt, prefs_store, response, summ_calls, compactions, n_requests, n_deletes>>

\* (mutant of StreamRaise) the partial text is persisted before the error frame
StreamRaisePersists ==
    /\ spc = "streaming"
    /\ RaiseOut \in EngineOutcomes(eng, Len(produced))
    /\ conversation_history' = Finalized(conversation_history, full_response, next_id)
    /\ n_appends' = n_appends + (IF HasText(full_response) THEN 1 ELSE 0)
    /\ next_id' = next_id + (IF HasText(full_response) THEN 1 ELSE 0)
    /\ frames' = Append(frames, ErrorFrame)
    /\ stop_reason' = "error"
    /\ spc' = "error_sent"
    /\ UNCHANGED <<s_max_tokens, full_response, token_count, last_50_tokens, recent_tokens, eng, produced, rng_seed>>
    /\ cleared_by' = "None"
    /\ UNCHANGED <<client, active_memory, prompt, tokenizer, overlap, loaderVars, current_seed, lastUserPrompt, prefs_store, response, summ_calls, compactions, n_requests, n_deletes>>

\* the engine raises: except Exception yields the error frame
StreamRaise ==
    /\ spc = "streaming"
    /\ RaiseOut \in EngineOutcomes(eng, Len(produced))
    /\ frames' = Append(frames, ErrorFrame)
    /\ stop_reason' = "error"
    /\ spc' = "error_sent"
    /\ UNCHANGED <<s_max_tokens, full_response, token_count, last_50_tokens, recent_tokens, eng, produced, rng_seed>>
    /\ cleared_by' = "None"
    /\ UNCHANGED <<client, active_memory, prompt, tokenizer, overlap, loaderVars, sessionVars, prefs_store, response, countVars>>

\* (mutant of StreamDoneAfterError) the generator returns after the error frame
StreamEndsAfterError ==
    /\ spc = "error_sent"
    /\ spc' = "closed"
    /\ UNCHANGED <<s_max_tokens, full_response, token_count, last_50_tokens, recent_tokens, frames, eng, produced, stop_reason, rng_seed>>
    /\ cleared_by' = "None"
    /\ UNCHANGED <<client, active_memory, prompt, tokenizer, overlap, loaderVars, sessionVars, prefs_store, response, countVars>>

\* resumed after the error frame: the done frame
StreamDoneAfterError ==
    /\ spc = "error_sent"
    /\ frames' = Append(frames, DoneFrame)
    /\ spc' = "closed"
    /\ UNCHANGED <<s_max_tokens, full_response, token_count, last_50_tokens, recent_tokens, eng, produced, stop_reason, rng_seed>>
    /\ cleared_by' = "None"
    /\ UNCHANGED <<client, active_memory, prompt, tokenizer, overlap, loaderVars, sessionVars, prefs_store, response, countVars>>

\* the client drops the connection while the Response is being streamed
Disconnect ==
    /\ spc \in {"created", "streaming", "finishing", "error_sent"}
    /\ client.state = "connected"
    /\ client' = [state |-> "gone", pulled |-> Len(produced), sent |-> Len(frames)]
    /\ cleared_by' = "None"
    /\ UNCHANGED <<active_memory, prompt, tokenizer, overlap, loaderVars, sessionVars, prefs_store, response, streamVars, countVars>>

\* the server's write of a frame yielded after the disconnect fails and it
\* closes the generator: GeneratorExit at the yield, which except Exception
\* does not catch
StreamClose ==
    /\ spc \in {"streaming", "finishing", "error_sent"}
    /\ client.state = "gone"
    /\ Len(frames) > client.sent
    /\ spc' = "cancelled"
    /\ UNCHANGED <<s_max_tokens, full_response, token_count, last_50_tokens, recent_tokens, frames, eng, produced, stop_reason, rng_seed>>
    /\ cleared_by' = "None"
    /\ UNCHANGED <<client, active_memory, prompt, tokenizer, overlap, loaderVars, sessionVars, prefs_store, response, countVars>>

-----------------------------------------------------------------------------
(* The other handlers. *)

\* the content of the last user Turn, "" when there is none
LastUserContent(history) ==
    IF \E i \in 1..Len(history) : history[i].role = "user"
    THEN history[CHOOSE i \in 1..Len(history) : history[i].role = "user" /\ \A j \in (i + 1)..Len(history) : history[j].role # "user"].content
    ELSE <<>>

\* (mutant of PopAt) del history[index:], everything from index on
PopFrom(history, index) ==
    SubSeq(history, 1, index)

\* list.pop(index), index counted from 0
PopAt(history, index) ==
    SubSeq(history, 1, index) \o SubSeq(history, index + 2, Len(history))

\* (mutant of IndexInRange) the upper bound taken inclusive
IndexInRangeInclusive(present, index, history) ==
    /\ present
    /\ 0 <= index
    /\ index <= Len(history)

\* message_index is not None and 0 <= message_index < len(conversation_history)
IndexInRange(present, index, history) ==
    /\ present
    /\ 0 <= index
    /\ index < Len(history)

\* POST /delete_message {index}
DeleteMessage(present, index) ==
    /\ IndexInRange(present, index, conversation_history) => n_deletes < MaxDeletes
    /\ IF IndexInRange(present, index, conversation_history)
       THEN /\ conversation_history' = PopAt(conversation_history, index)
            /\ lastUserPrompt' = LastUserContent(conversation_history')
            /\ n_deletes' = n_deletes + 1
       ELSE UNCHANGED <<conversation_history, lastUserPrompt, n_deletes>>
    /\ response' = Resp("delete_message", 200, "deleted")
    /\ cleared_by' = "None"
    /\ UNCHANGED <<client, active_memory, prompt, tokenizer, overlap, loaderVars, current_seed, prefs_store, streamVars, summ_calls, compactions, n_requests, n_appends, next_id>>

\* POST /delete_last_message
DeleteLastMessage ==
    /\ conversation_history # <<>> => n_deletes < MaxDeletes
    /\ IF conversation_history # <<>>
       THEN /\ conversation_history' = PopAt(conversation_history, Len(conversation_history) - 1)
            /\ lastUserPrompt' = LastUserContent(conversation_history')
            /\ n_deletes' = n_deletes + 1
       ELSE UNCHANGED <<conversation_history, lastUserPrompt, n_deletes>>
    /\ response' = Resp("delete_last_message", 200, "deleted")
    /\ cleared_by' = "None"
    /\ UNCHANGED <<client, active_memory, prompt, tokenizer, overlap, loaderVars, current_seed, prefs_store, streamVars, summ_calls, compactions, n_requests, n_appends, next_id>>

\* POST /clear_cache
ClearCacheEndpoint ==
    /\ cleared_by' = "endpoint"
    /\ response' = Resp("clear_cache", 200, "cache_cleared")
    /\ UNCHANGED <<client, active_memory, prompt, tokenizer, overlap, loaderVars, sessionVars, prefs_store, streamVars, countVars>>

\* POST /randomize_seed
RandomizeSeed(new_seed) ==
    /\ current_seed' = new_seed
    /\ response' = Resp("randomize_seed", 200, "current_seed")
    /\ cleared_by' = "None"
    /\ UNCHANGED <<client, active_memory, prompt, tokenizer, overlap, loaderVars, conversation_history, lastUserPrompt, prefs_store, streamVars, countVars>>

\* save_slider_preferences(): the file is overwritten with the payload
SavedFile(payload) ==
    [state |-> "ok", data |-> JsonDump(payload.items)]

\* POST /save_preferences
SavePreferences(payload) ==
    /\ IF payload.kind = "unparseable"
       THEN /\ response' = Resp("save_preferences", 500, "Failed to save preferences")
            /\ UNCHANGED prefs_store
       ELSE IF SaveRejects(payload)
       THEN /\ response' = Resp("save_preferences", 400, "Invalid preferences data")
            /\ UNCHANGED prefs_store
       ELSE /\ prefs_store' = SavedFile(payload)
            /\ response' = Resp("save_preferences", 200, "saved")
    /\ cleared_by' = "None"
    /\ UNCHANGED <<client, active_memory, prompt, tokenizer, overlap, loaderVars, sessionVars, streamVars, countVars>>

\* GET /get_preferences
GetPreferences ==
    /\ LET loaded == LoadSliderPreferences(prefs_store)
       IN  response' = IF loaded.raised
                       THEN Resp("get_preferences", 500, "Internal Server Error")
                       ELSE Resp("get_preferences", 200, "preferences")
    /\ cleared_by' = "None"
    /\ UNCHANGED <<client, active_memory, prompt, tokenizer, overlap, loaderVars, sessionVars, prefs_store, streamVars, countVars>>

-----------------------------------------------------------------------------
(* load_model, run once by the background thread. *)

\* model, tokenizer = load(model_path)
LoadModelAssign(tok) ==
    /\ loader_pc = "start"
    /\ loader_pc' = "assigned"
    /\ model' = "set"
    /\ tokenizer' = tok
    /\ cleared_by' = "None"
    /\ UNCHANGED <<model_loaded, sessionVars, prefs_store, response, client, active_memory, prompt, overlap, streamVars, countVars>>

\* (mutant of LoadModelReady) the readiness flag set without waiting for load()
LoadModelReadyUnassigned ==
    /\ loader_pc \in {"start", "assigned"}
    /\ loader_pc' = "done"
    /\ model_loaded' = TRUE
    /\ cleared_by' = "load"
    /\ UNCHANGED <<model, sessionVars, prefs_store, response, client, active_memory, prompt, tokenizer, overlap, streamVars, countVars>>

\* clear_memory_cache(); model_loaded = True
LoadModelReady ==
    /\ loader_pc = "assigned"
    /\ loader_pc' = "done"
    /\ model_loaded' = TRUE
    /\ cleared_by' = "load"
    /\ UNCHANGED <<model, sessionVars, prefs_store, response, client, active_memory, prompt, tokenizer, overlap, streamVars, countVars>>

\* no model found, or an exception inside the try: model_loaded = False
LoadModelFail ==
    /\ loader_pc \in {"start", "assigned"}
    /\ loader_pc' = "done"
    /\ model_loaded' = FALSE
    /\ cleared_by' = "None"
    /\ UNCHANGED <<model, sessionVars, prefs_store, response, client, active_memory, prompt, tokenizer, overlap, streamVars, countVars>>

-----------------------------------------------------------------------------
(* Initial states and specifications. *)

NoResponse ==
    Resp("none", 0, "none")

InitStream ==
    /\ spc = "none"
    /\ s_max_tokens = 0
    /\ full_response = <<>>
    /\ token_count = 0
    /\ last_50_tokens = <<>>
    /\ recent_tokens = <<>>
    /\ frames = <<>>
    /\ eng = "None"
    /\ produced = <<>>
    /\ stop_reason = "None"
    /\ rng_seed = 0

\* the process after start-up: the loader thread started, nothing requested yet
Init ==
    /\ loader_pc = "start"
    /\ model = "None"
    /\ model_loaded = FALSE
    /\ current_seed \in 1..SeedRange
    /\ conversation_history = <<>>
    /\ lastUserPrompt = UNSET
    /\ prefs_store = NoFile
    /\ response = NoResponse
    /\ client = Connected
    /\ cleared_by = "None"
    /\ active_memory = 4
    /\ prompt = NoPrompt
    /\ tokenizer = "None"
    /\ overlap = NoOverlap
    /\ InitStream
    /\ summ_calls = 0
    /\ compactions = 0
    /\ n_requests = 0
    /\ n_appends = 0
    /\ n_deletes = 0
    /\ next_id = 1

\* a session with a loaded model and tokenizer in which n Turns were exchanged
LoadedSessionTok(history, store, tok) ==
    /\ loader_pc = "done"
    /\ model = "set"
    /\ model_loaded = TRUE
    /\ current_seed = 1
    /\ conversation_history = history
    /\ lastUserPrompt = UNSET
    /\ prefs_store = store
    /\ response = NoResponse
    /\ client = Connected
    /\ cleared_by = "None"
    /\ active_memory = 4
    /\ prompt = NoPrompt
    /\ tokenizer = tok
    /\ overlap = NoOverlap
    /\ InitStream
    /\ summ_calls = 0
    /\ compactions = 0
    /\ n_requests = 0
    /\ n_appends = Len(history)
    /\ n_deletes = 0
    /\ next_id = Len(history) + 1

LoadedSessionWith(history, store) ==
    LoadedSessionTok(history, store, "chat_template")

LoadedSession(history) ==
    LoadedSessionWith(history, NoFile)

\* n Turns of alternating user prompts and assistant answers
Exchanges(n) ==
    [i \in 1..n |-> Turn(IF i % 2 = 1 THEN "user" ELSE "assistant", IF i % 2 = 1 THEN USER_INPUT ELSE TOK_A, i)]

\* the payloads POSTed to /save_preferences
Payloads ==
    {
      NonePayload, UnparseablePayload, ListPayload(<<>>), ListPayload(<<1>>), DictPayload(<<>>),
      DictPayload([temperature |-> FloatVal(<<"0", ".", "5">>), top_p |-> FloatVal(<<"1", ".", "0">>), top_k |-> IntVal(40),
                   repetition_penalty |-> IntVal(1), max_tokens |-> IntVal(2)]),
      DictPayload([temperature |-> FloatVal(<<"0", ".", "5">>)]),
      DictPayload([foo |-> IntVal(1)])
    }

\* the indexes POSTed to /delete_message
DeleteIndexes(history) ==
    {-1, 0, 1, Len(history) - 1, Len(history)}

SessionMaxTokens == {1, 3}

SessionEngines == {"unbounded", "stopping", "exhausted", "failing"}

StreamMaxTokens == {1, 3, 10, 75, 768, 775}

\* the engine streams explored with a given max_tokens
StreamEngines(max_tokens) ==
    CASE max_tokens <= 10 -> {"free", "unbounded"}
      [] max_tokens = 75 -> {"repeat2"}
      [] max_tokens = 768 -> {"wrapup"}
      [] max_tokens = 775 -> {"repwrap"}
      [] OTHER -> {"repeat2", "wrapup", "repwrap"}

Streaming(engines) ==
    \/ StreamBegin(engines)
    \/ StreamToken
    \/ StreamFinish
    \/ StreamExhausted
    \/ StreamRaise
    \/ StreamDoneAfterError

Next ==
    \/ LoadModelAssign("chat_template")
    \/ LoadModelReady
    \/ LoadModelFail
    \/ \E regenerate \in BOOLEAN, max_tokens \in SessionMaxTokens, new_seed \in 1..SeedRange :
          Generate(USER_INPUT, TRUE, max_tokens, regenerate, new_seed, TRUE)
    \/ Streaming(SessionEngines)
    \/ \E present \in BOOLEAN, index \in DeleteIndexes(conversation_history) : DeleteMessage(present, index)
    \/ DeleteLastMessage
    \/ \E new_seed \in 1..SeedRange : RandomizeSeed(new_seed)

Spec == Init /\ [][Next]_vars

\* one generation in a fresh, loaded session, against every engine stream
InitOneStream ==
    LoadedSession(<<>>)

NextOneStream ==
    \/ /\ spc = "none"
       /\ \E given \in BOOLEAN, max_tokens \in StreamMaxTokens :
             Generate(USER_INPUT, given, max_tokens, FALSE, current_seed, TRUE)
    \/ Streaming(StreamEngines(s_max_tokens))

SpecStream == InitOneStream /\ [][NextOneStream]_vars

\* a loaded session that already holds a long or a short history
LongLengths == {9, 99, 100, 101}

InitLong ==
    \E n \in LongLengths : LoadedSession(Exchanges(n))

NextLong ==
    \/ \E regenerate \in BOOLEAN, new_seed \in 1..SeedRange, call_ok \in BOOLEAN :
          Generate(USER_INPUT, TRUE, 3, regenerate, new_seed, call_ok)
    \/ StreamBegin({"stopping"})
    \/ StreamToken
    \/ StreamFinish
    \/ \E index \in {0, Len(conversation_history)} : DeleteMessage(TRUE, index)
    \/ DeleteLastMessage

SpecLong == InitLong /\ [][NextLong]_vars

\* the preference store with /save_preferences and /generate requests
InitialStores == {NoFile, CorruptFile, UnreadableFile}

InitPrefs ==
    \E store \in InitialStores : LoadedSessionWith(<<>>, store)

NextPrefs ==
    \/ \E payload \in Payloads : SavePreferences(payload)
    \/ GetPreferences
    \/ \E given \in BOOLEAN : Generate(USER_INPUT, given, 1, FALSE, current_seed, TRUE)
    \/ Streaming({"stopping", "exhausted", "failing"})

SpecPrefs == InitPrefs /\ [][NextPrefs]_vars

\* a loaded session holding a short history, and the delete handlers
DeleteLengths == 0..12

InitDelete ==
    \E n \in DeleteLengths : LoadedSession(Exchanges(n))

NextDelete ==
    \/ \E present \in BOOLEAN, index \in DeleteIndexes(conversation_history) : DeleteMessage(present, index)
    \/ DeleteLastMessage

SpecDelete == InitDelete /\ [][NextDelete]_vars

\* a loaded session one request short of a compaction, and two requests
\* that overlap
OverlapLengths == {98, 99, 100}

InitOverlap ==
    \E n \in OverlapLengths : LoadedSession(Exchanges(n))

NextOverlap ==
    \/ Generate(USER_INPUT, TRUE, 3, FALSE, current_seed, TRUE)
    \/ Streaming({"stopping", "exhausted", "failing"})
    \/ GenerateSlice(USER_INPUT, FALSE, current_seed)
    \/ \E call_ok \in BOOLEAN : GenerateRebind(call_ok)

SpecOverlap == InitOverlap /\ [][NextOverlap]_vars

\* sessions of either kind of tokenizer whose next request adds a reminder
\* Turn or compacts the history
PromptLengths == {0, 9, 12, 99, 100}

InitPrompt ==
    \E n \in PromptLengths, tok \in Tokenizers : LoadedSessionTok(Exchanges(n), NoFile, tok)

NextPrompt ==
    \/ \E regenerate \in BOOLEAN : Generate(USER_INPUT, TRUE, 3, regenerate, current_seed, TRUE)
    \/ Streaming({"stopping", "exhausted", "failing"})
    \/ DeleteMessage(TRUE, 0)

SpecPrompt == InitPrompt /\ [][NextPrompt]_vars

\* requests, regenerate requests and seed changes in a loaded session
SeedLengths == {0, 2}

InitSeed ==
    \E n \in SeedLengths : LoadedSession(Exchanges(n))

NextSeed ==
    \/ \E regenerate \in BOOLEAN, new_seed \in 1..SeedRange :
          Generate(USER_INPUT, TRUE, 3, regenerate, new_seed, TRUE)
    \/ Streaming({"stopping", "exhausted", "failing"})
    \/ \E new_seed \in 1..SeedRange : RandomizeSeed(new_seed)

SpecSeed == InitSeed /\ [][NextSeed]_vars

\* the process from start-up under steady memory readings below 8 GB,
\* between 8 and 10 GB and above 10 GB, generations long enough for the
\* periodic check, and /clear_cache requests
MemoryReadings == {4, 9, 12}

CacheMaxTokens == {3, 51}

\* the engine streams explored with a given max_tokens
CacheEngines(max_tokens) ==
    IF max_tokens = 51 THEN {"wrapup"} ELSE {"stopping", "exhausted", "failing"}

InitCache ==
    /\ loader_pc = "start"
    /\ model = "None"
    /\ tokenizer = "None"
    /\ model_loaded = FALSE
    /\ current_seed = 1
    /\ conversation_history = <<>>
    /\ lastUserPrompt = UNSET
    /\ prefs_store = NoFile
    /\ response = NoResponse
    /\ client = Connected
    /\ cleared_by = "None"
    /\ active_memory \in MemoryReadings
    /\ prompt = NoPrompt
    /\ overlap = NoOverlap
    /\ InitStream
    /\ summ_calls = 0
    /\ compactions = 0
    /\ n_requests = 0
    /\ n_appends = 0
    /\ n_deletes = 0
    /\ next_id = 1

NextCache ==
    \/ \E tok \in Tokenizers : LoadModelAssign(tok)
    \/ LoadModelReady
    \/ LoadModelFail
    \/ \E max_tokens \in CacheMaxTokens : Generate(USER_INPUT, TRUE, max_tokens, FALSE, current_seed, TRUE)
    \/ Streaming(CacheEngines(s_max_tokens))
    \/ ClearCacheEndpoint

SpecCache == InitCache /\ [][NextCache]_vars

\* generations whose client may go away
ClientEngines == {"unbounded", "stopping", "exhausted", "failing"}

InitClient ==
    LoadedSession(<<>>)

NextClient ==
    \/ Generate(USER_INPUT, TRUE, 3, FALSE, current_seed, TRUE)
    \/ Streaming(ClientEngines)
    \/ Disconnect
    \/ StreamClose

SpecClient == InitClient /\ [][NextClient]_vars

-----------------------------------------------------------------------------
(* Properties of one generation (SpecStream). *)

\* the texts of the token frames the client received, in order
EmittedTokens ==
    LET IsToken(f) == f.type = "token"
        sent == SelectSeq(frames, IsToken)
    IN  [i \in 1..Len(sent) |-> sent[i].token]

\* the assistant Turns of the history
AssistantTurns ==
    {i \in 1..Len(conversation_history) : conversation_history[i].role = "assistant"}

USER_MARKER == <<"U", "s", "e", "r", ":">>

\* the number of responses the engine had yielded when their concatenation
\* first contained marker (0 when it never does)
FirstCompleting(marker) ==
    IF Contains(Join(produced), marker)
    THEN CHOOSE k \in 1..Len(produced) :
            /\ Contains(Join(SubSeq(produced, 1, k)), marker)
            /\ ~Contains(Join(SubSeq(produced, 1, k - 1)), marker)
    ELSE 0

\* C1: against the engine stream that never stops on its own and never
\* produces a stop pattern, a generation with max_tokens = N delivers exactly
\* N token frames and then the done frame.
C1_ExactlyMaxTokensFrames ==
    (spc = "closed" /\ eng = "unbounded") =>
        /\ Len(EmittedTokens) = s_max_tokens
        /\ frames = [i \in 1..s_max_tokens |-> TokenFrame(TOK_A)] \o <<DoneFrame>>

\* C2: when the concatenation of the engine's tokens contains "User:", no
\* token frame is sent for the token completing it or for any later one, and
\* the assistant Turn persisted for the generation does not end with "User:".
C2_UserMarkerHalts ==
    (spc = "closed" /\ Contains(Join(produced), USER_MARKER)) =>
        /\ Len(EmittedTokens) < FirstCompleting(USER_MARKER)
        /\ \A i \in AssistantTurns : ~EndsWith(conversation_history[i].content, USER_MARKER)

\* the first half of C2 alone: the completing token never reaches the client
C2_CompletingTokenNotSent ==
    Contains(Join(produced), USER_MARKER) =>
        /\ Len(EmittedTokens) < FirstCompleting(USER_MARKER)
        /\ ~Contains(Join(EmittedTokens), USER_MARKER)

\* C7: an engine failure mid-stream yields the error frame after the token
\* frames already sent, nothing more is pulled from the engine, and the
\* history keeps no assistant Turn for the attempt, whatever was accumulated.
C7_ErrorDiscardsPartialOutput ==
    /\ [](stop_reason = "error" =>
            /\ spc \in {"error_sent", "closed"}
            /\ AssistantTurns = {}
            /\ conversation_history = <<Turn("user", USER_INPUT, 1)>>
            /\ LET sent == [i \in 1..Len(EmittedTokens) |-> TokenFrame(EmittedTokens[i])]
               IN  frames = sent \o <<ErrorFrame>> \o (IF spc = "closed" THEN <<DoneFrame>> ELSE <<>>))
    /\ [][stop_reason = "error" => (produced' = produced /\ conversation_history' = conversation_history)]_vars

\* C7 witness: the engine failed after tokens had been sent and accumulated
C7_Witness ==
    /\ stop_reason = "error"
    /\ spc = "closed"
    /\ Len(EmittedTokens) >= 2
    /\ Strip(full_response) # <<>>

\* C8 as stated: every termination of the loop other than an engine failure
\* appends exactly one assistant Turn with the cleaned text and then sends
\* done, also when no token was accepted.
C8_AlwaysOneTurnThenDone ==
    (spc = "closed" /\ stop_reason # "error") =>
        /\ conversation_history = <<Turn("user", USER_INPUT, 1), Turn("assistant", CleanResponse(full_response), 2)>>
        /\ frames[Len(frames)] = DoneFrame

\* C8 amended: a termination other than an engine failure appends exactly one
\* assistant Turn with the cleaned text when the accumulated text holds a
\* non-whitespace character, and no Turn otherwise; the done frame is sent
\* once, last, after the Turn was appended.
C8_OneTurnIfTextThenDone ==
    /\ (spc = "closed" /\ stop_reason # "error") =>
        /\ conversation_history =
              <<Turn("user", USER_INPUT, 1)>> \o
              (IF \E i \in 1..Len(full_response) : full_response[i] \notin WHITESPACE
               THEN <<Turn("assistant", CleanResponse(full_response), 2)>>
               ELSE <<>>)
        /\ frames[Len(frames)] = DoneFrame
        /\ Cardinality({i \in 1..Len(frames) : frames[i] = DoneFrame}) = 1
    /\ (spc # "closed" /\ stop_reason # "error") =>
        /\ AssistantTurns = {}
        /\ \A i \in 1..Len(frames) : frames[i] # DoneFrame

\* C8 witness: a wrap-up stop with text accumulated, Turn appended, done sent
C8_Witness ==
    /\ spc = "closed"
    /\ stop_reason = "wrapup"
    /\ Len(conversation_history) = 2
    /\ conversation_history[2].role = "assistant"
    /\ frames[Len(frames)] = DoneFrame

-----------------------------------------------------------------------------
(* Properties of the session (Spec, SpecLong, SpecPrefs). *)

\* the history after a regenerate request dropped a trailing assistant Turn
WithoutTrailingAssistant(history) ==
    IF history # <<>> /\ history[Len(history)].role = "assistant"
    THEN SubSeq(history, 1, Len(history) - 1)
    ELSE history

\* target is base, or base followed by one system Turn
SameOrWithSystemTurn(target, base) ==
    \/ target = base
    \/ /\ Len(target) = Len(base) + 1
       /\ SubSeq(target, 1, Len(base)) = base
       /\ target[Len(target)].role = "system"

\* C3: a regenerate request removes exactly one trailing assistant Turn when
\* there is one and nothing otherwise, appends no user Turn, and leaves the
\* session seed different from the seed the prior generation was seeded with.
C3_RegenerateDropsTurnAndChangesSeed ==
    [][\A max_tokens \in SessionMaxTokens, new_seed \in 1..SeedRange :
          (model_loaded /\ Generate(USER_INPUT, TRUE, max_tokens, TRUE, new_seed, TRUE)) =>
              /\ SameOrWithSystemTurn(conversation_history', WithoutTrailingAssistant(conversation_history))
              /\ rng_seed # 0 => current_seed' # rng_seed]_vars

\* the history half of C3 alone
C3_RegenerateDropsTurn ==
    [][\A max_tokens \in SessionMaxTokens, new_seed \in 1..SeedRange :
          (model_loaded /\ Generate(USER_INPUT, TRUE, max_tokens, TRUE, new_seed, TRUE)) =>
              SameOrWithSystemTurn(conversation_history', WithoutTrailingAssistant(conversation_history))]_vars

\* C4: a /generate request whose history holds 101 Turns at the compaction
\* check leaves 51 Turns: the summary Turn (system instruction, separator,
\* summary text) and then the last 50 Turns of that history, unchanged, in order.
C4_CompactionKeepsLastFifty ==
    [][\A regenerate \in BOOLEAN, new_seed \in 1..SeedRange, call_ok \in BOOLEAN :
          LET h == HistoryAtCheck(conversation_history, regenerate, USER_INPUT, next_id)
          IN  (Generate(USER_INPUT, TRUE, 3, regenerate, new_seed, call_ok) /\ Len(h) = 101) =>
                  /\ Len(conversation_history') = 51
                  /\ conversation_history'[1].role = "system"
                  /\ conversation_history'[1].content \in
                        {SYSTEM_PROMPT \o STORY_CONTEXT_SEP \o ENGINE_SUMMARY,
                         SYSTEM_PROMPT \o STORY_CONTEXT_SEP \o PLACEHOLDER_SUMMARY}
                  /\ \A i \in 1..50 : conversation_history'[i + 1] = h[51 + i]]_vars

\* C4 witness: a history of 101 Turns (Turns 1..101) was compacted to the
\* summary Turn and Turns 52..101
C4_Witness ==
    /\ compactions = 1
    /\ n_deletes = 0
    /\ spc = "created"
    /\ Len(conversation_history) = 51
    /\ conversation_history[1].role = "system"
    /\ conversation_history[2].id = 52
    /\ conversation_history[51].id = 101

\* C5: a /generate request whose history holds at most 100 Turns at the
\* compaction check leaves that history as it is and issues no summarization call.
C5_NoCompactionUpToThreshold ==
    [][\A regenerate \in BOOLEAN, new_seed \in 1..SeedRange, call_ok \in BOOLEAN :
          LET h == HistoryAtCheck(conversation_history, regenerate, USER_INPUT, next_id)
          IN  (Generate(USER_INPUT, TRUE, 3, regenerate, new_seed, call_ok) /\ Len(h) <= 100) =>
                  /\ conversation_history' = h
                  /\ summ_calls' = summ_calls
                  /\ compactions' = compactions]_vars

\* C5 witness: a request passed the compaction check with 99 Turns
C5_Witness ==
    /\ spc = "created"
    /\ n_requests >= 1
    /\ Len(conversation_history) = 99
    /\ summ_calls = 0

\* C6: as long as Turns were only appended and removed, the history holds as
\* many Turns as were appended minus those removed, in their append order.
C6_LengthAndOrder ==
    compactions = 0 =>
        /\ Len(conversation_history) = n_appends - n_deletes
        /\ \A i, j \in 1..Len(conversation_history) :
              i < j => conversation_history[i].id < conversation_history[j].id

\* C6 witness: a Turn in the middle was deleted and later Turns were appended
C6_Witness ==
    /\ n_deletes >= 2
    /\ n_appends >= 4
    /\ Len(conversation_history) >= 2
    /\ \E i \in 1..(Len(conversation_history) - 1) :
          conversation_history[i + 1].id > conversation_history[i].id + 1

\* C9: /generate with model_loaded false answers "not loaded" at once and
\* changes neither the history nor the seed nor anything of the stream.
C9_NotLoadedFailsFast ==
    [][\A regenerate \in BOOLEAN, max_tokens \in SessionMaxTokens, new_seed \in 1..SeedRange :
          (~model_loaded /\ Generate(USER_INPUT, TRUE, max_tokens, regenerate, new_seed, TRUE)) =>
              /\ response' = Resp("generate", 200, "Model not loaded yet")
              /\ UNCHANGED <<conversation_history, current_seed, lastUserPrompt>>
              /\ cleared_by' = "None"
              /\ UNCHANGED <<client, active_memory, prompt, tokenizer, overlap, loaderVars, prefs_store, streamVars, countVars>>]_vars

\* C9 witness: the "not loaded" answer was given while the loader was still running
C9_Witness ==
    /\ response = Resp("generate", 200, "Model not loaded yet")
    /\ loader_pc = "assigned"
    /\ ~model_loaded
    /\ conversation_history = <<>>

\* a well-formed preference mapping: exactly the five recognized keys
WellFormedPrefs(payload) ==
    /\ payload.kind = "dict"
    /\ DOMAIN payload.items = PREF_KEYS

\* C10: /save_preferences answers every payload that is not a well-formed
\* mapping of the five keys with an error and leaves the store as it was;
\* only well-formed payloads overwrite it.  (Any status from 400 on is taken
\* as the rejection here.)
C10_MalformedPayloadRejected ==
    [][\A payload \in Payloads :
          (SavePreferences(payload) /\ ~WellFormedPrefs(payload)) =>
              /\ response'.status >= 400
              /\ prefs_store' = prefs_store]_vars

-----------------------------------------------------------------------------
(* Properties of the preference store, continued (SpecPrefs). *)

\* C11: a load after the save of a well-formed preference mapping returns
\* that mapping unchanged, and a load with no file present returns the
\* defaults temperature 0.7, top_p 0.9, top_k 50, repetition_penalty 1.1,
\* max_tokens 1024.
C11_SaveLoadRoundTrip ==
    /\ [](prefs_store.state = "absent" =>
            LoadSliderPreferences(prefs_store) =
                [raised |-> FALSE,
                 prefs |-> [temperature |-> FloatVal(<<"0", ".", "7">>), top_p |-> FloatVal(<<"0", ".", "9">>), top_k |-> IntVal(50),
                            repetition_penalty |-> FloatVal(<<"1", ".", "1">>), max_tokens |-> IntVal(1024)]])
    /\ [][\A payload \in Payloads :
            (SavePreferences(payload) /\ WellFormedPrefs(payload)) =>
                /\ response'.status = 200
                /\ LoadSliderPreferences(prefs_store') = [raised |-> FALSE, prefs |-> payload.items]]_vars

\* a well-formed mapping was saved and a later request loaded it
C11_Witness ==
    /\ response.handler = "get_preferences"
    /\ response.status = 200
    /\ prefs_store.state = "ok"
    /\ DOMAIN prefs_store.data = PREF_KEYS
    /\ LoadSliderPreferences(prefs_store).prefs.top_k = IntVal(40)

\* C12: with the preference file missing, unreadable or corrupt, the load
\* falls back to the defaults: neither /get_preferences nor /generate fails.
C12_LoadFailureRecovered ==
    [][(/\ prefs_store.state # "ok"
        /\ \/ GetPreferences
           \/ \E given \in BOOLEAN : Generate(USER_INPUT, given, 1, FALSE, current_seed, TRUE)) =>
            /\ LoadSliderPreferences(prefs_store) = [raised |-> FALSE, prefs |-> DEFAULT_PREFS]
            /\ response'.status = 200]_vars

-----------------------------------------------------------------------------
(* Properties of the compaction, continued (SpecLong). *)

\* C13: when the summarization call of a compaction fails, the summary Turn
\* carries the fixed placeholder text, the history is the summary Turn and
\* then the last 50 Turns, and the request goes on to stream: the handler
\* answers with the event stream and no frame has reported anything.
C13_SummaryFailureRecovered ==
    [][\A regenerate \in BOOLEAN, new_seed \in 1..SeedRange :
          LET h == HistoryAtCheck(conversation_history, regenerate, USER_INPUT, next_id)
          IN  (Generate(USER_INPUT, TRUE, 3, regenerate, new_seed, FALSE) /\ CompactionDue(h)) =>
                  /\ Len(conversation_history') = 51
                  /\ conversation_history'[1].role = "system"
                  /\ conversation_history'[1].content = SYSTEM_PROMPT \o STORY_CONTEXT_SEP \o PLACEHOLDER_SUMMARY
                  /\ \A i \in 1..50 : conversation_history'[i + 1] = h[Len(h) - 50 + i]
                  /\ response' = Resp("generate", 200, "event-stream")
                  /\ spc' = "created"
                  /\ frames' = <<>>]_vars

\* C13 witness: a compaction whose summarization call failed, and the
\* generation it belonged to ran to its end
C13_Witness ==
    /\ compactions = 1
    /\ summ_calls = 1
    /\ Len(conversation_history) = 52
    /\ conversation_history[1].content = SYSTEM_PROMPT \o STORY_CONTEXT_SEP \o PLACEHOLDER_SUMMARY
    /\ conversation_history[52].role = "assistant"
    /\ spc = "closed"
    /\ frames[Len(frames)] = DoneFrame

-----------------------------------------------------------------------------
(* Properties of one generation, continued (SpecStream). *)

FrameCount(type) ==
    Cardinality({i \in 1..Len(frames) : frames[i].type = type})

\* C14: the frames of a response stream are token frames, at most one error
\* frame and a done frame; a done frame is the last frame, the generator has
\* ended exactly when it has sent its done frame, and nothing is sent after it.
C14_FramesEndWithOneDone ==
    /\ [](/\ \A i \in 1..Len(frames) : frames[i].type \in {"token", "error", "done"}
          /\ FrameCount("error") <= 1
          /\ \A i \in 1..Len(frames) : frames[i].type = "done" => i = Len(frames)
          /\ spc = "closed" <=> FrameCount("done") = 1)
    /\ [][spc = "closed" => frames' = frames]_vars

\* C14 witness: a stream of one token frame, the error frame and the done frame
C14_Witness ==
    /\ spc = "closed"
    /\ Len(frames) = 3
    /\ frames[1].type = "token"
    /\ frames[2] = ErrorFrame
    /\ frames[3] = DoneFrame

\* C15: on an engine stream that repeats a two-word phrase, one word a
\* token, with max_tokens above 75, the loop runs up to token 75 and stops
\* there, by the repetition check.
C15_RepetitionStopsAt75 ==
    (eng = "repeat2" /\ s_max_tokens > 75) =>
        /\ token_count <= 75
        /\ token_count = 75 <=> spc = "closed"
        /\ spc = "closed" => stop_reason = "repetition" /\ Len(produced) = 75

\* C15 witness: the stream of the repeated phrase was stopped at token 75
C15_Witness ==
    /\ eng = "repeat2"
    /\ s_max_tokens > 75
    /\ spc = "closed"
    /\ stop_reason = "repetition"
    /\ token_count = 75
    /\ Len(Split(Join(LastN(last_50_tokens, 40)))) = 40
    /\ Cardinality({produced[i] : i \in 1..Len(produced)}) = 2

-----------------------------------------------------------------------------
(* Properties of the preference store and /generate (SpecPrefs). *)

\* C16: a /generate request, with or without a max_tokens override, and the
\* stream it starts leave the preference store as it was: a load after it
\* returns what a load before it returned.
C16_GenerateLeavesStore ==
    [][(\/ \E given \in BOOLEAN : Generate(USER_INPUT, given, 1, FALSE, current_seed, TRUE)
        \/ Streaming({"stopping", "exhausted", "failing"})) =>
            /\ prefs_store' = prefs_store
            /\ LoadSliderPreferences(prefs_store') = LoadSliderPreferences(prefs_store)]_vars

\* C16 witness: a generation ran with max_tokens 1 given in the request while
\* the store holds max_tokens 2
C16_Witness ==
    /\ response.handler = "generate"
    /\ spc = "closed"
    /\ s_max_tokens = 1
    /\ prefs_store.state = "ok"
    /\ DOMAIN prefs_store.data = PREF_KEYS
    /\ LoadSliderPreferences(prefs_store).prefs.max_tokens = IntVal(2)

-----------------------------------------------------------------------------
(* Properties of a dropped connection (SpecClient). *)

\* C17: once the client has dropped the connection, generate_stream pulls no
\* further token from the engine stream.
C17_NoPullAfterDisconnect ==
    client.state = "gone" => Len(produced) = client.pulled

-----------------------------------------------------------------------------
(* Properties of the delete handlers (SpecDelete). *)

\* C18: /delete_message with no index, a negative index or an index at or
\* past the end of the history changes neither the history nor the
\* last-user-prompt value, and is answered with the acknowledgement.
C18_OutOfRangeDeleteIsNoOp ==
    [][\A present \in BOOLEAN, index \in DeleteIndexes(conversation_history) :
          (/\ ~present \/ index < 0 \/ index >= Len(conversation_history)
           /\ DeleteMessage(present, index)) =>
              /\ conversation_history' = conversation_history
              /\ lastUserPrompt' = lastUserPrompt
              /\ response' = Resp("delete_message", 200, "deleted")]_vars

\* C18 witness: after a Turn was deleted, which set the last-user-prompt
\* value, a further delete request was acknowledged with the history at
\* its full remaining length
C18_Witness ==
    /\ response.handler = "delete_message"
    /\ n_deletes = 1
    /\ lastUserPrompt = USER_INPUT
    /\ Len(conversation_history) = 5

-----------------------------------------------------------------------------
(* Properties of the per-token checks (SpecStream). *)

\* C19: on every token pulled, the stop is the first that holds of the
\* pattern check (role markers and chat-template tokens), the repetition
\* check, the wrap-up check and the hard limit, in this order, and the token
\* is left out of the accumulated response exactly when the pattern check stops.
C19_StopPriority ==
    [][Len(produced') = Len(produced) + 1 =>
          LET token == produced'[Len(produced')]
              test_response == full_response \o token
              count == token_count + 1
              window == PushWindow(last_50_tokens, token, SHORT_WINDOW)
              pattern == PatternStop(test_response) \/ TemplateStop(test_response)
              repetition == RepetitionStop(count, window)
              wrapup == WrapUpStop(count, token, window)
              limit == LimitStop(count, s_max_tokens)
          IN  /\ pattern => stop_reason' \in {"pattern", "template"}
              /\ (~pattern /\ repetition) => stop_reason' = "repetition"
              /\ (~pattern /\ ~repetition /\ wrapup) => stop_reason' = "wrapup"
              /\ (~pattern /\ ~repetition /\ ~wrapup /\ limit) => stop_reason' = "limit"
              /\ ~(pattern \/ repetition \/ wrapup \/ limit) => stop_reason' = "None"
              /\ pattern <=> (token_count' = token_count /\ full_response' = full_response)
              /\ ~pattern => (token_count' = count /\ full_response' = test_response)]_vars

\* C19 witness: at token 775 the repetition check, the wrap-up check and the
\* hard limit hold together and the stop is the repetition stop
C19_Witness ==
    /\ spc = "closed"
    /\ stop_reason = "repetition"
    /\ token_count = 775
    /\ LimitStop(token_count, s_max_tokens)
    /\ WrapUpStop(token_count, produced[Len(produced)], last_50_tokens)
    /\ RepetitionStop(token_count, last_50_tokens)

\* a second case: the first token completes a role marker with max_tokens 1;
\* the stop is the pattern stop and the token is not accumulated
C19_WitnessPatternAtLimit ==
    /\ spc = "closed"
    /\ stop_reason = "pattern"
    /\ s_max_tokens = 1
    /\ Len(produced) = 1
    /\ full_response = <<>>

\* C20: at every point of a stream the texts of the token frames sent are,
\* in order, the first responses the engine yielded, and a step of the
\* generator sends at most one frame.
C20_EmittedInProductionOrder ==
    /\ [](LET emitted == EmittedTokens
          IN  /\ Len(emitted) <= Len(produced)
              /\ emitted = SubSeq(produced, 1, Len(emitted)))
    /\ [][frames' # <<>> => (Len(frames') <= Len(frames) + 1 /\ SubSeq(frames', 1, Len(frames)) = frames)]_vars

\* C20 witness: three different tokens were sent in the order the engine
\* yielded them, and a fourth one ended the stream unsent
C20_Witness ==
    /\ spc = "closed"
    /\ Len(produced) = 4
    /\ Len(EmittedTokens) = 3
    /\ EmittedTokens[1] # EmittedTokens[2]
    /\ EmittedTokens[2] # EmittedTokens[3]
    /\ EmittedTokens[1] # EmittedTokens[3]

-----------------------------------------------------------------------------
(* Properties of overlapping requests (SpecOverlap). *)

\* C21: when a request rebinds the history at the end of its compaction,
\* every Turn the history held just before is still in the history or is
\* among the Turns that were summarized.
C21_NoTurnLostInOverlap ==
    [][\A call_ok \in BOOLEAN :
          GenerateRebind(call_ok) =>
              \A i \in 1..Len(conversation_history) :
                  \/ \E j \in 1..Len(conversation_history') : conversation_history'[j] = conversation_history[i]
                  \/ \E j \in 1..Len(overlap.messages_to_summarize) :
                        overlap.messages_to_summarize[j] = conversation_history[i]]_vars

-----------------------------------------------------------------------------
(* Properties of the prompt assembly (SpecPrompt). *)

\* the first index at or after from where p occurs in s, 0 when there is none
FindFrom(s, p, from) ==
    LET hits == {i \in from..(Len(s) - Len(p) + 1) : SubSeq(s, i, i + Len(p) - 1) = p}
    IN  IF hits = {} THEN 0 ELSE CHOOSE i \in hits : \A j \in hits : i <= j

\* parts[k..] occur in text one after the other, at or after from
RECURSIVE OccurInOrder(_, _, _, _)
OccurInOrder(text, parts, k, from) ==
    IF k > Len(parts) THEN TRUE
    ELSE LET at == FindFrom(text, parts[k], from)
         IN  at # 0 /\ OccurInOrder(text, parts, k + 1, at + Len(parts[k]))

\* the prompt p carries the system instruction, the guidance and the content
\* of every Turn of history h, in order
PromptCarries(p, h) ==
    CASE p.format = "chat_template" ->
             /\ Len(p.messages) = Len(h) + 1
             /\ p.messages[1].content = SYSTEM_PROMPT \o STRUCTURED_GUIDANCE
             /\ \A i \in 1..Len(h) : p.messages[i + 1].content = h[i].content /\ p.messages[i + 1].role = h[i].role
      [] p.format = "fallback" ->
             /\ OccurInOrder(p.text, <<SYSTEM_PROMPT, STRUCTURED_GUIDANCE>> \o [i \in 1..Len(h) |-> h[i].content], 1, 1)
             /\ EndsWith(p.text, ASSISTANT_CUE)
      [] OTHER -> FALSE

\* C22: the prompt a /generate request assembles carries the system
\* instruction, the guidance and the content of every Turn of the history it
\* was assembled from, summary and reminder Turns included, in order, in
\* both formats; the fallback prompt ends with "Assistant:".
C22_PromptCarriesEveryTurn ==
    [][n_requests' = n_requests + 1 => PromptCarries(prompt', conversation_history')]_vars

\* the reminder Turns of history h appended at or after ordinal id
RemindersSince(h, id) ==
    {i \in 1..Len(h) : h[i].id >= id /\ h[i].role = "system" /\ h[i].content = REMINDER_PREFIX \o SYSTEM_PROMPT}

\* C23: a /generate request appends one reminder Turn when the history, after
\* the user Turn was appended or the trailing assistant Turn removed, has a
\* length that is a positive multiple of 10, and none otherwise.
C23_ReminderEveryTen ==
    [][\A regenerate \in BOOLEAN :
          (Generate(USER_INPUT, TRUE, 3, regenerate, current_seed, TRUE) /\ n_requests' = n_requests + 1) =>
              LET len == IF regenerate
                         THEN Len(WithoutTrailingAssistant(conversation_history))
                         ELSE Len(conversation_history) + 1
              IN  Cardinality(RemindersSince(conversation_history', next_id)) =
                      IF len > 0 /\ len % 10 = 0 THEN 1 ELSE 0]_vars

\* C23 witness: a regenerate request removed the assistant Turn of an
\* eleven-Turn history and the reminder Turn took its place
C23_Witness ==
    /\ spc = "created"
    /\ n_deletes = 2
    /\ Len(conversation_history) = 11
    /\ conversation_history[10].role = "user"
    /\ conversation_history[11].role = "system"
    /\ conversation_history[11].content = REMINDER_PREFIX \o SYSTEM_PROMPT

-----------------------------------------------------------------------------
(* Properties of the session seed (SpecSeed). *)

\* C24: every generation seeds the random generator with the session seed of
\* the moment; the session seed stays within its range and changes only in a
\* randomize_seed request or a regenerate request, so generations with
\* neither in between are seeded alike.
C24_SeedDiscipline ==
    /\ [](current_seed \in 1..SeedRange)
    /\ [][(spc = "created" /\ spc' = "streaming") => rng_seed' = current_seed]_vars
    /\ [][current_seed' # current_seed =>
              \/ \E new_seed \in 1..SeedRange : RandomizeSeed(new_seed)
              \/ \E new_seed \in 1..SeedRange : Generate(USER_INPUT, TRUE, 3, TRUE, new_seed, TRUE)]_vars

\* C24 witness: a second generation started after the seed had been changed
\* and was seeded with the changed seed
C24_Witness ==
    /\ n_requests = 2
    /\ spc = "streaming"
    /\ current_seed # 1
    /\ rng_seed = current_seed

-----------------------------------------------------------------------------
(* Properties of the cache clears and of the loader (SpecCache). *)

\* C25 as stated: the engine cache is cleared only by the periodic check of
\* the token loop or by a /clear_cache request.
C25_ClearsOnlyFromLoopOrEndpoint ==
    cleared_by \in {"None", "loop", "endpoint"}

\* C25 amended: the engine cache is cleared only at four call sites: by the
\* loader before it sets the readiness flag, at the start of a generation
\* when active memory is above 8 GB, in the token loop on every 50th accepted
\* token when active memory is above 10 GB, and by a /clear_cache request;
\* after the clear in the loop the iteration goes on to its yield or to the
\* wrap-up or hard-limit stop.
C25_ClearsOnlyAtCallSites ==
    /\ cleared_by \in {"None", "load", "start", "loop", "endpoint"}
    /\ cleared_by = "load" => loader_pc = "done" /\ model_loaded
    /\ cleared_by = "start" => spc = "streaming" /\ token_count = 0 /\ active_memory > 8
    /\ cleared_by = "loop" =>
          /\ token_count > 0
          /\ token_count % 50 = 0
          /\ active_memory > 10
          /\ \/ spc \in {"streaming", "finishing"} /\ frames[Len(frames)].type = "token"
             \/ spc = "closed" /\ stop_reason \in {"wrapup", "limit"}
    /\ cleared_by = "endpoint" => response = Resp("clear_cache", 200, "cache_cleared")
    /\ (spc = "streaming" /\ token_count > 0 /\ token_count % 50 = 0 /\ active_memory > 10
           /\ frames[Len(frames)].type = "token" /\ response.handler = "generate")
          => cleared_by = "loop"

\* C25 witness: the periodic check cleared the cache on the 50th token and
\* the token was sent
C25_Witness ==
    /\ cleared_by = "loop"
    /\ token_count = 50
    /\ spc = "streaming"
    /\ Len(frames) = 50

\* C26: whenever the readiness flag is set, the model and the tokenizer are
\* set, so no request that passed the readiness check meets an unset one.
C26_ReadyImpliesModelSet ==
    model_loaded => (model # "None" /\ tokenizer # "None")

\* C26 witness: a request passed the readiness check and its generation is
\* running with the loaded model and tokenizer
C26_Witness ==
    /\ model_loaded
    /\ spc = "streaming"
    /\ model = "set"
    /\ tokenizer \in Tokenizers

-----------------------------------------------------------------------------
(* Properties of the persisted assistant Turn (SpecStream). *)

\* C27: no assistant Turn of the history contains a template token or ends
\* with a role marker.
C27_PersistedTurnClean ==
    \A i \in AssistantTurns :
        /\ \A k \in 1..Len(template_tokens) : ~Contains(conversation_history[i].content, template_tokens[k])
        /\ \A k \in 1..Len(role_patterns) : ~EndsWith(conversation_history[i].content, role_patterns[k])

-----------------------------------------------------------------------------
(* The size of the history under requests served one after the other (SpecLong). *)

\* C29: the history never holds more than 102 Turns, neither between
\* requests nor inside /generate before its compaction check, and every
\* request that assembles a prompt does so from at most 100 Turns.
C29_HistoryBounded ==
    /\ [](/\ Len(conversation_history) <= 102
          /\ \A regenerate \in BOOLEAN :
                Len(HistoryAtCheck(conversation_history, regenerate, USER_INPUT, next_id)) <= 102)
    /\ [][n_requests' = n_requests + 1 => Len(conversation_history') <= 100]_vars

\* C29 witness: a prompt was assembled from a history close to the threshold
\* that needed no compaction
C29_Witness ==
    /\ spc = "created"
    /\ compactions = 0
    /\ Len(conversation_history) >= 98
    /\ Len(conversation_history) = Len(prompt.messages) - 1

\* C28: when the loop was ended by the repetition, wrap-up or hard-limit
\* stop or by the end of the engine stream, the accumulated response is the
\* concatenation of the tokens sent to the client.
C28_AccumulatedIsEmitted ==
    (spc = "closed" /\ stop_reason \in {"repetition", "wrapup", "limit", "finish", "exhausted"}) =>
        full_response = Join(EmittedTokens)

\* C30: no assistant Turn of the history has empty content.
C30_AssistantTurnNonEmpty ==
    \A i \in AssistantTurns : conversation_history[i].content # <<>>

====
